---- MODULE Spec2Model ----
(***************************************************************************)
(* Mueller and Muller clock recovery loop of 8_wip_Synchronization.ipynb   *)
(* (the "Time Synchronization" code cell).                                 *)
(*                                                                         *)
(* Numbers.  Samples are complex numbers with integer real and imaginary   *)
(* parts, written [re |-> a, im |-> b].  With such samples mm_val is an    *)
(* integer and mu only ever takes values that are multiples of 1/10, so mu *)
(* is kept exactly, as the integer number of tenths (MuScale == 10,        *)
(* 0.3 == GainNum / MuScale).  The arithmetic is exact; the rounding of    *)
(* IEEE doubles is not modelled.                                           *)
(*                                                                         *)
(* Input.  The input stream is arbitrary.  len_samples is its length and   *)
(* samples holds the entries the loop has read so far: an entry is chosen  *)
(* from Alphabet when the loop first reads it and is fixed from then on,   *)
(* so every read of one index returns one value.                           *)
(***************************************************************************)
EXTENDS Integers, Sequences, FiniteSets, TLC

VARIABLES sps, len_samples, samples, mu, out, out_rail, i_in, i_out, mm_val, pc

vars == <<sps, len_samples, samples, mu, out, out_rail, i_in, i_out, mm_val, pc>>

----------------------------------------------------------------------------
(* Bounds of the model *)

\* longest input stream drawn
MaxLen == 40

----------------------------------------------------------------------------
(* Program constants *)

\* "i_in+16 < len(samples)"
LookaheadMargin == 16
\* "0.3*mm_val" is GainNum / MuScale
GainNum == 3
MuScale == 10
\* "np.zeros(len(samples) + 10, dtype=complex)"
OutPad == 10
\* "i_out = 2 # output index (let first two outputs be 0)"
FirstOut == 2

----------------------------------------------------------------------------
(* Complex arithmetic (numpy complex128 on integer-valued operands) *)

Cx(a, b) == [re |-> a, im |-> b]

CZero == Cx(0, 0)

CSub(a, b) == Cx(a.re - b.re, a.im - b.im)

CMul(a, b) == Cx(a.re * b.re - a.im * b.im, a.re * b.im + a.im * b.re)

Conj(a) == Cx(a.re, -a.im)

Real(a) == a.re

Imag(a) == a.im

\* int(b) of a Python bool
BoolInt(b) == IF b THEN 1 ELSE 0

\* np.floor(n / d) for d > 0
Floor(n, d) == n \div d

\* int(n / d) for d > 0: truncation towards zero
Trunc(n, d) == IF n >= 0 THEN n \div d ELSE -((-n) \div d)

----------------------------------------------------------------------------
(* Inputs *)

\* Sample values: the two symbol levels and zero, a quadrature sample, a
\* sample with both parts non-zero, and two large-amplitude samples (one that
\* makes 0.3*mm_val outweigh sps by about one sample, one by hundreds).
Alphabet ==
    {Cx(1, 0), Cx(-1, 0), Cx(0, 0), Cx(0, 1), Cx(1, -1), Cx(-30, 0), Cx(-1000, 0)}

\* sps = 8 in the notebook; 16 is a second valid rate, 0 an invalid one
SpsSet == {0, 8, 16}

----------------------------------------------------------------------------
(* The loop *)

\* out = np.zeros(len(samples) + 10, dtype=complex)
Zeros(n) == [k \in 0 .. (n - 1) |-> CZero]

\* int(np.real(v) > 0) + 1j*int(np.imag(v) > 0)
SlicerGe(v) == Cx(BoolInt(Real(v) >= 0), BoolInt(Imag(v) >= 0))

Slicer(v) == Cx(BoolInt(Real(v) > 0), BoolInt(Imag(v) > 0))

\* while i_out < len(samples) and i_in+16 < len(samples)
LoopGuardNoMargin(io, ii, n) == io < n

LoopGuard(io, ii, n) == io < n /\ ii + LookaheadMargin < n

\* i_in + int(mu)
ReadIndex(ii, m) == ii + Trunc(m, MuScale)

\* numpy indexing of a 1-d array of length n: negative indices count from the
\* end, anything outside -n .. n-1 raises IndexError
InBounds(idx, n) == -n <= idx /\ idx < n

Position(idx, n) == IF idx < 0 THEN idx + n ELSE idx

\* x, y and mm_val of one iteration, o and r being out and out_rail after the
\* assignments to o[k] and r[k]
MMErrorShifted(o, r, k) ==
    LET x == CMul(CSub(r[k], r[k - 2]), Conj(o[k - 1]))
        y == CMul(CSub(o[k], o[k - 2]), Conj(r[k]))
    IN  Real(CSub(y, x))

MMError(o, r, k) ==
    LET x == CMul(CSub(r[k], r[k - 2]), Conj(o[k - 1]))
        y == CMul(CSub(o[k], o[k - 2]), Conj(r[k - 1]))
    IN  Real(CSub(y, x))

\* mu += sps + 0.3*mm_val   (in tenths)
MuUpdateOpenLoop(m, s, e) == m + MuScale * s

MuUpdate(m, s, e) == m + MuScale * s + GainNum * e

\* int(np.floor(mu))
Step(m) == Floor(m, MuScale)

\* mu - np.floor(mu)   (in tenths)
FracTrunc(m) == m - MuScale * Trunc(m, MuScale)

Frac(m) == m - MuScale * Floor(m, MuScale)

\* out[2:i_out]
Slice(o, lo, hi) == [k \in 0 .. (hi - lo - 1) |-> o[k + lo]]

Init ==
    /\ sps \in SpsSet
    /\ len_samples \in 0 .. MaxLen
    /\ samples = << >>
    /\ mu = 0
    /\ out = Zeros(len_samples + OutPad)
    /\ out_rail = Zeros(len_samples + OutPad)
    /\ i_in = 0
    /\ i_out = FirstOut
    /\ mm_val = 0
    /\ pc = "loop"

\* samples[i_in + int(mu)] raises IndexError
ReadFails ==
    /\ pc = "loop"
    /\ LoopGuard(i_out, i_in, len_samples)
    /\ ~InBounds(ReadIndex(i_in, mu), len_samples)
    /\ pc' = "IndexError"
    /\ UNCHANGED <<sps, len_samples, samples, mu, out, out_rail, i_in, i_out, mm_val>>

\* one pass through the body of the while loop, the sample read being v
Body(p, v) ==
    LET o  == [out EXCEPT ![i_out] = v]
        r  == [out_rail EXCEPT ![i_out] = Slicer(v)]
        e  == MMError(o, r, i_out)
        m  == MuUpdate(mu, sps, e)
    IN  /\ samples' = (p :> v) @@ samples
        /\ out' = o
        /\ out_rail' = r
        /\ mm_val' = e
        /\ i_in' = i_in + Step(m)
        /\ mu' = Frac(m)
        /\ i_out' = i_out + 1
        /\ UNCHANGED <<sps, len_samples, pc>>

Iterate ==
    /\ pc = "loop"
    /\ LoopGuard(i_out, i_in, len_samples)
    /\ InBounds(ReadIndex(i_in, mu), len_samples)
    /\ LET p == Position(ReadIndex(i_in, mu), len_samples)
       IN  IF p \in DOMAIN samples
           THEN Body(p, samples[p])
           ELSE \E v \in Alphabet : Body(p, v)

\* the while condition is false: out = out[2:i_out]
Finish ==
    /\ pc = "loop"
    /\ ~LoopGuard(i_out, i_in, len_samples)
    /\ out' = Slice(out, FirstOut, i_out)
    /\ pc' = "done"
    /\ UNCHANGED <<sps, len_samples, samples, mu, out_rail, i_in, i_out, mm_val>>

Next == Iterate \/ ReadFails \/ Finish

Spec == Init /\ [][Next]_vars

----------------------------------------------------------------------------
(* Derived quantities used by the properties *)

\* number of completed iterations, the length of out[2:i_out]
OutLen == i_out - FirstOut

\* the k-th entry written by the loop (k >= 2), before and after the trim
OutAt(k) == IF pc = "done" THEN out[k - FirstOut] ELSE out[k]

\* the loop is about to execute its body
AboutToRead == pc = "loop" /\ LoopGuard(i_out, i_in, len_samples)

\* pulse_train of the notebook: for each bit, sps samples of which the first
\* is bit*2-1 and the others are 0
PulseTrain(bits, s) ==
    [p \in 0 .. (Len(bits) * s - 1) |->
        IF p % s = 0 THEN Cx(bits[(p \div s) + 1] * 2 - 1, 0) ELSE CZero]

\* the symbols 1, -1, 1, 1, -1 as bits
ScenarioBits == <<1, 0, 1, 1, 0>>

\* the input stream is the scenario's: sps = 8, L = 40, and every entry the
\* loop has read is the pulse train's
ScenarioStream ==
    /\ sps = 8
    /\ len_samples = Len(ScenarioBits) * sps
    /\ \A p \in DOMAIN samples : samples[p] = PulseTrain(ScenarioBits, sps)[p]

\* the trimmed output passed through the slicer, on the -1/+1 scale
SlicedOutput == [k \in DOMAIN out |-> 2 * Real(Slicer(out[k])) - 1]

----------------------------------------------------------------------------
(* C1 *)

\* C1: whenever the loop reads the input stream, the index i_in + int(mu)
\* satisfies 0 <= index < L - 16.
C1_ReadIndexInMargin ==
    AboutToRead =>
        /\ 0 <= ReadIndex(i_in, mu)
        /\ ReadIndex(i_in, mu) < len_samples - LookaheadMargin

(* C2 *)

\* C2: i_in never decreases from one iteration to the next.
C2_IndexNonDecreasing == [][i_in' >= i_in]_vars

(* C3 *)

\* C3: mu lies in [0, 1) at the start of the loop and after every iteration
\* (mu is counted in tenths, so 0 <= mu < MuScale).
C3_MuInUnitInterval == 0 <= mu /\ mu < MuScale

\* an iteration whose error term outweighed sps by a sample or more has just
\* been normalised to a non-zero fraction
C3_Witness ==
    /\ i_out > FirstOut
    /\ MuScale * sps + GainNum * mm_val <= -MuScale
    /\ mu > 0

(* C4 *)

\* C4 (as stated): a stream shorter than 2*sps + 16 yields an empty output and
\* no out-of-bounds read.
C4_ShortStreamEmpty_Original ==
    len_samples < 2 * sps + LookaheadMargin =>
        /\ pc # "IndexError"
        /\ pc = "done" => DOMAIN out = {}

\* C4 (amended): a stream of at most 16 samples yields an empty output, and
\* the loop reads nothing and runs no iteration.
C4_MarginStreamEmpty ==
    len_samples <= LookaheadMargin =>
        /\ pc # "IndexError"
        /\ samples = << >>
        /\ i_out = FirstOut
        /\ pc = "done" => DOMAIN out = {}

\* the loop has finished on the longest stream the margin check rejects
C4_Witness ==
    /\ pc = "done"
    /\ len_samples = LookaheadMargin
    /\ sps >= 1
    /\ DOMAIN out = {}

(* C5 *)

\* C5 (as stated): in the concrete scenario the sliced output is 1,-1,1,1,-1.
C5_Scenario_Original ==
    (ScenarioStream /\ pc = "done") =>
        /\ DOMAIN out = 0 .. 4
        /\ SlicedOutput = [k \in 0 .. 4 |-> 2 * ScenarioBits[k + 1] - 1]

\* C5 (amended): in the concrete scenario the loop finishes, the output is
\* the four samples 1, -1, 0, 0 and its sliced form is 1, -1, -1, -1.
C5_Scenario ==
    ScenarioStream =>
        /\ pc # "IndexError"
        /\ pc = "done" =>
            /\ out = [k \in 0 .. 3 |-> Cx(<<1, -1, 0, 0>>[k + 1], 0)]
            /\ SlicedOutput = [k \in 0 .. 3 |-> <<1, -1, -1, -1>>[k + 1]]

\* the loop has finished on the scenario's stream
C5_Witness == ScenarioStream /\ pc = "done" /\ OutLen = 4

(* C6 *)

\* C6: with sps < 1 no iteration runs: nothing is read, nothing is produced
\* and mu, i_in and the histories keep their initial values.
C6_InvalidSpsRejected ==
    sps < 1 =>
        /\ samples = << >>
        /\ i_out = FirstOut
        /\ i_in = 0
        /\ mu = 0
        /\ \A k \in DOMAIN out : out[k] = CZero
        /\ \A k \in DOMAIN out_rail : out_rail[k] = CZero

(* C7 *)

\* C7: for sps >= 1 the output length never exceeds L and is at most
\* L / sps + c, here with c = 2.
C7_OutputCardinality ==
    sps >= 1 =>
        /\ OutLen <= len_samples
        /\ sps * (OutLen - 2) <= len_samples

(* C8 *)

\* C8 (as stated): a part that is exactly zero is decided like a positive
\* part; only a strictly negative part gets the other level.
C8_SlicerInclusive_Original ==
    \A k \in FirstOut .. (i_out - 1) :
        /\ Real(out_rail[k]) = BoolInt(Real(OutAt(k)) >= 0)
        /\ Imag(out_rail[k]) = BoolInt(Imag(OutAt(k)) >= 0)

\* C8 (amended): a part that is exactly zero is decided like a negative
\* part (level 0); only a strictly positive part gets level 1; each axis is
\* decided on its own.
C8_SlicerStrict ==
    \A k \in FirstOut .. (i_out - 1) :
        /\ Real(out_rail[k]) = BoolInt(Real(OutAt(k)) > 0)
        /\ Imag(out_rail[k]) = BoolInt(Imag(OutAt(k)) > 0)

\* an output sample whose real part is exactly zero and whose imaginary part
\* is positive has been decided, and so has one with both parts zero
C8_Witness ==
    /\ \E k \in FirstOut .. (i_out - 1) :
        Real(OutAt(k)) = 0 /\ Imag(OutAt(k)) > 0
    /\ \E k \in FirstOut .. (i_out - 1) : OutAt(k) = CZero

(* C9 *)

\* C9: the loop runs at most max(L - 2, 0) iterations and has halted only
\* when i_out >= L or i_in + 16 >= L.
C9_HaltsOnGuard ==
    /\ OutLen <= IF len_samples > FirstOut THEN len_samples - FirstOut ELSE 0
    /\ pc # "loop" => ~LoopGuard(i_out, i_in, len_samples)

(* C10 *)

\* C10: the error of the first iteration is 0 whatever the first sample, so
\* after it i_in = sps and mu = 0.
C10_FirstIteration ==
    i_out = FirstOut + 1 => (mm_val = 0 /\ i_in = sps /\ mu = 0)

\* the first iteration has run on a sample with a positive and a negative part
C10_Witness ==
    /\ i_out = FirstOut + 1
    /\ pc = "loop"
    /\ sps >= 1
    /\ out[FirstOut] = Cx(1, -1)

====
